---------------------------- MODULE Spec2Model ----------------------------
(***************************************************************************)
(* Model of the lesson-finder bot (src/index.js): the outbound delivery    *)
(* limiter (globalThrottle, queueForChat, tgCall), the SQLite store        *)
(* (videos, user_memberships), the membership middleware, the indexer      *)
(* (new media and caption edits), the /find resolver, the lessons menu     *)
(* and the callback_query handler.                                         *)
(*                                                                         *)
(* Time is in milliseconds.  The limiter reads the clock only through     *)
(* differences (Date.now() - lastGlobal) and timers, so its model keeps    *)
(* the differences and each timer's remaining time.  A timer set by        *)
(* sleep(ms) fires no earlier than its deadline.                           *)
(***************************************************************************)
EXTENDS Integers, Sequences, FiniteSets, TLC

VARIABLES
    sinceGlobal,  \* Date.now() - lastGlobal (index.js:123-129), counted up to minGap
    chatLocks,    \* index.js:133  Map: key -> the last promise queued for it
    calls,        \* the promises made by queueForChat, in submission order
    sinceStart,   \* ms since the transport function was last invoked, up to minGap
    sinceKeyStart, \* per key: ms since fn() was last invoked for it, up to QueueSleep
    now,          \* Date.now() as the store's handlers read it
    videos,       \* table videos: a set of rows
    memberships,  \* table user_memberships: a set of rows
    handled,      \* number of message and edit updates handled so far
    finds,        \* number of /find commands handled so far
    last,         \* what the handler of the most recent update did
    update,       \* the update an observed delivery handed to the bot
    handledCallbacks, \* index.js:506  Set of callback query ids
    clears,       \* number of runs of the interval that clears handledCallbacks
    acts,         \* the runs of the callback_query handler, in arrival order
    menu          \* the lessons menu most recently built by showLessonsMenu

limiterVars == <<sinceGlobal, chatLocks, calls, sinceStart, sinceKeyStart>>
storeVars == <<now, videos, memberships, handled, finds, last, update>>
uiVars == <<handledCallbacks, clears, acts, menu>>
vars == <<sinceGlobal, chatLocks, calls, sinceStart, sinceKeyStart,
          now, videos, memberships, handled, finds, last, update,
          handledCallbacks, clears, acts, menu>>

----------------------------------------------------------------------------
(* Bounds *)

MaxCalls == 3
MaxLiveCalls == 2
MaxRetryAfter == 1
MaxUpdates == 2
MaxFinds == 1
MaxActs == 3
MaxClears == 1
MaxCallbackIds == 2
MaxRows == 17
MaxPresses == 3

(* Program constants *)

minGap == 40
QueueSleep == 1100
MsPerSecond == 1000

\* destination keys, String(chatId); they are interchangeable, so a key that
\* has no promise yet is taken in this order
KeySeq == <<"g1", "g2", "u1">>
Keys == {KeySeq[i] : i \in 1..Len(KeySeq)}

Min(a, b) == IF a <= b THEN a ELSE b
Max(a, b) == IF a >= b THEN a ELSE b

----------------------------------------------------------------------------
(* Errors thrown by the transport: whether tgCall's is429 test holds of    *)
(* them, and the retry_after its ?? chain finds (hasHint = FALSE: all      *)
(* three places are null or undefined).                                    *)

Errors ==
    {e \in [is429 : BOOLEAN, hasHint : BOOLEAN, retry_after : 0..MaxRetryAfter] :
        ~e.hasHint => e.retry_after = 0}

Ok == [ok |-> TRUE]
Failure(e) == [ok |-> FALSE, err |-> e]
Outcomes == {Ok} \cup {Failure(e) : e \in Errors}

\* JavaScript truthiness of `retry` in `if (is429 && retry)`: undefined and 0
\* are falsy.
Truthy(e) == e.hasHint /\ e.retry_after # 0


\* tgCall's test for the one retry
shouldRetry(e) == e.is429 /\ Truthy(e)

retryDelayNoMargin(e) == e.retry_after * MsPerSecond

\* sleep((Number(retry) + 1) * 1000)
retryDelay(e) == (e.retry_after + 1) * MsPerSecond

----------------------------------------------------------------------------
(* Promises *)

CallIds == 1..Len(calls)
Settled(c) == calls[c].pc \in {"resolved", "rejected"}
Sleeping(c) == calls[c].pc \in {"sleepQ", "sleepG", "sleepR"}
\* task() has been called: the promise is past queueForChat's sleep
TaskStarted(c) == calls[c].pc \in {"sleepG", "inflight", "sleepR"} \/ calls[c].attempt > 0

catchPrevMissing(status) == status

\* prev.catch(() => {}): a rejection of prev is turned into fulfilment
catchPrev(status) == IF status = "rejected" THEN "resolved" ELSE status

PrevReadyUnchained(c) == TRUE

\* the promise queueForChat chains on has settled (no promise: Promise.resolve())
PrevReady(c) == IF calls[c].prev = 0 THEN TRUE ELSE Settled(calls[c].prev)

NewCall(key, prev) ==
    [key |-> key, prev |-> prev, pc |-> "waitPrev", left |-> 0,
     attempt |-> 0, firstErr |-> <<>>, rejectedWith |-> <<>>,
     waited |-> 0, gapGlobal |-> minGap, gapKey |-> QueueSleep]

\* queueForChat(chatId, task), task = () => tgCall(fn)
queueForChat(key) ==
    /\ calls' = Append(calls, NewCall(key, chatLocks[key]))
    /\ chatLocks' = [chatLocks EXCEPT ![key] = Len(calls) + 1]
    /\ UNCHANGED <<sinceGlobal, sinceStart, sinceKeyStart>>

\* fn() is invoked
InvokeFn(c, cs) ==
    /\ calls' = [cs EXCEPT ![c].pc = "inflight", ![c].attempt = @ + 1,
                           ![c].gapGlobal = sinceStart,
                           ![c].gapKey = sinceKeyStart[cs[c].key]]
    /\ sinceStart' = 0
    /\ sinceKeyStart' = [sinceKeyStart EXCEPT ![cs[c].key] = 0]

\* globalThrottle() up to its sleep, then (when it does not sleep) fn()
globalThrottle(c, cs) ==
    LET delta == sinceGlobal IN
    IF delta < minGap
    THEN /\ calls' = [cs EXCEPT ![c].pc = "sleepG", ![c].left = minGap - delta]
         /\ UNCHANGED <<sinceGlobal, sinceStart, sinceKeyStart>>
    ELSE /\ sinceGlobal' = 0
         /\ InvokeFn(c, cs)

ChainWithoutSleep(c) ==
    /\ calls[c].pc = "waitPrev"
    /\ PrevReady(c)
    /\ calls' = [calls EXCEPT ![c].pc = "sleepQ", ![c].left = 0]
    /\ UNCHANGED <<sinceGlobal, chatLocks, sinceStart, sinceKeyStart>>

\* prev settled: .catch(() => {}).then(async () => { await sleep(1100); ... })
Chain(c) ==
    /\ calls[c].pc = "waitPrev"
    /\ PrevReady(c)
    /\ LET p == calls[c].prev IN
       IF (IF p = 0 THEN "resolved" ELSE catchPrev(calls[p].pc)) = "rejected"
       THEN calls' = [calls EXCEPT ![c].pc = "rejected",
                                   ![c].rejectedWith = calls[p].rejectedWith]
       ELSE calls' = [calls EXCEPT ![c].pc = "sleepQ", ![c].left = QueueSleep]
    /\ UNCHANGED <<sinceGlobal, chatLocks, sinceStart, sinceKeyStart>>

\* sleep(1100) is over: task() runs tgCall, which enters globalThrottle
WakeQueue(c) ==
    /\ calls[c].pc = "sleepQ"
    /\ calls[c].left = 0
    /\ globalThrottle(c, calls)
    /\ UNCHANGED chatLocks

\* globalThrottle's sleep is over: lastGlobal = Date.now(), then fn()
WakeGlobal(c) ==
    /\ calls[c].pc = "sleepG"
    /\ calls[c].left = 0
    /\ sinceGlobal' = 0
    /\ InvokeFn(c, calls)
    /\ UNCHANGED chatLocks

\* fn() settles: tgCall's return, or its catch block
Settle(c, out) ==
    /\ calls[c].pc = "inflight"
    /\ IF out.ok
       THEN calls' = [calls EXCEPT ![c].pc = "resolved"]
       ELSE IF calls[c].attempt = 1 /\ shouldRetry(out.err)
            THEN calls' = [calls EXCEPT ![c].pc = "sleepR",
                                        ![c].firstErr = <<out.err>>,
                                        ![c].left = retryDelay(out.err)]
            ELSE calls' = [calls EXCEPT ![c].pc = "rejected",
                                        ![c].firstErr = IF calls[c].attempt = 1 THEN <<out.err>> ELSE @,
                                        ![c].rejectedWith = <<[err |-> out.err, origin |-> c]>>]
    /\ UNCHANGED <<sinceGlobal, chatLocks, sinceStart, sinceKeyStart>>

\* the retry's sleep is over: globalThrottle again, then fn() again
WakeRetry(c) ==
    /\ calls[c].pc = "sleepR"
    /\ calls[c].left = 0
    /\ globalThrottle(c, calls)
    /\ UNCHANGED chatLocks

\* the pending timers
Pending == {c \in CallIds : Sleeping(c) /\ calls[c].left > 0}
NextDeadline == CHOOSE d \in {calls[c].left : c \in Pending} :
                    \A c \in Pending : d <= calls[c].left

\* d ms pass
Elapse(d) ==
    /\ calls' = [c \in CallIds |->
                   [calls[c] EXCEPT
                      !.left = Max(0, @ - d),
                      !.waited = IF calls[c].attempt = 1 /\ calls[c].pc \in {"sleepR", "sleepG"}
                                 THEN Min(@ + d, (MaxRetryAfter + 1) * MsPerSecond)
                                 ELSE @]]
    /\ sinceGlobal' = Min(minGap, sinceGlobal + d)
    /\ sinceStart' = Min(minGap, sinceStart + d)
    /\ sinceKeyStart' = [k \in Keys |-> Min(QueueSleep, sinceKeyStart[k] + d)]
    /\ UNCHANGED chatLocks

\* time passes, up to the next timer's deadline
Tick ==
    /\ Pending # {}
    /\ Elapse(NextDeadline)
    /\ UNCHANGED <<storeVars, uiVars>>

----------------------------------------------------------------------------

(* Text.  A string is a sequence of one-character strings. *)

Whitespace == {" ", "\t"}
IsSpace(ch) == ch \in Whitespace

\* String.prototype.toLowerCase and SQLite's LOWER(), on these characters
LowerChar(ch) == CASE ch = "A" -> "a" [] ch = "B" -> "b" [] OTHER -> ch
toLowerCase(s) == [i \in 1..Len(s) |-> LowerChar(s[i])]

RECURSIVE trimStart(_)
trimStart(s) ==
    IF s = <<>> THEN s
    ELSE IF IsSpace(Head(s)) THEN trimStart(Tail(s)) ELSE s

RECURSIVE trimEnd(_)
trimEnd(s) ==
    IF s = <<>> THEN s
    ELSE IF IsSpace(s[Len(s)]) THEN trimEnd(SubSeq(s, 1, Len(s) - 1)) ELSE s

trim(s) == trimEnd(trimStart(s))

\* s.replace(/\s+/g, ' ')
RECURSIVE collapse(_)
collapse(s) ==
    IF s = <<>> THEN s
    ELSE IF IsSpace(Head(s)) THEN <<" ">> \o collapse(trimStart(s))
    ELSE <<Head(s)>> \o collapse(Tail(s))


\* normalizeTitle = s => (s || '').trim().replace(/\s+/g, ' ');  an absent
\* string is the empty one
normalizeTitle(s) == collapse(trim(s))

\* file_name.replace(/\.[^.]+$/, ''): the last dot and what follows it, when
\* something follows it
stripExtension(s) ==
    LET dots == {i \in 1..Len(s) : s[i] = "."} IN
    IF dots = {} THEN s
    ELSE LET i == CHOOSE d \in dots : \A e \in dots : e <= d IN
         IF i < Len(s) THEN SubSeq(s, 1, i - 1) ELSE s

\* INSTR(hay, needle) > 0
Contains(hay, needle) ==
    \E i \in 1..(Len(hay) - Len(needle) + 1) :
        SubSeq(hay, i, i + Len(needle) - 1) = needle

----------------------------------------------------------------------------
(* The transport's updates *)

Null == "<null>"

GroupChats ==
    {[id |-> "g1", type |-> "group", title |-> "Algebra"],
     [id |-> "g2", type |-> "supergroup", title |-> ""]}
PrivateChat(u) == [id |-> u, type |-> "private", title |-> ""]

Users == {"u1", "u2"}
\* Telegram numbers messages in increasing order
MessageIds == 1..MaxUpdates
Senders == {[id |-> u, is_bot |-> FALSE] : u \in Users}
               \cup {[id |-> "b1", is_bot |-> TRUE]}

\* isGroup = chat => chat && (chat.type === 'group' || chat.type === 'supergroup')
isGroup(chat) == chat.type \in {"group", "supergroup"}

\* chat.title || null
titleOrNull(chat) == IF chat.title = "" THEN Null ELSE chat.title

Captions ==
    {<<>>, <<"a">>, <<"A">>, <<" ", "a", "\t", " ", "b", " ">>}

NoDocument == [present |-> FALSE, file_name |-> <<>>, mime_type |-> ""]
Document(f, m) == [present |-> TRUE, file_name |-> f, mime_type |-> m]

NoMedia ==
    [video |-> FALSE, animation |-> FALSE, video_note |-> FALSE, document |-> NoDocument]

\* msg.video, msg.animation, msg.video_note, msg.document
Payloads ==
    {[video |-> TRUE, animation |-> FALSE, video_note |-> FALSE, document |-> NoDocument],
     [video |-> FALSE, animation |-> FALSE, video_note |-> FALSE,
      document |-> Document(<<"a", " ", " ", "b", ".", "m">>, "video/mp4")],
     [video |-> FALSE, animation |-> FALSE, video_note |-> FALSE,
      document |-> Document(<<".", "m">>, "video/mp4")],
     [video |-> FALSE, animation |-> FALSE, video_note |-> FALSE,
      document |-> Document(<<"a", ".", "m">>, "application/pdf")],
     [video |-> FALSE, animation |-> TRUE, video_note |-> FALSE,
      document |-> Document(<<"A", ".", "m">>, "image/gif")],
     [video |-> FALSE, animation |-> FALSE, video_note |-> TRUE, document |-> NoDocument]}

\* mime_type.startsWith('video/')
startsWithVideo(m) == m \in {"video/mp4"}

\* the text after "/find" or "/find@bot"
FindArgs ==
    {<<>>, <<" ", "a">>, <<" ", "A", " ">>, <<" ", "\"", "a", " ", "b", "\"">>,
     <<" ", "b">>, <<" ", "\"", " ", "\"">>}

----------------------------------------------------------------------------
(* Store: the two tables and the prepared statements *)

SameVideoKeyNoCase(r, row) ==
    r.chat_id = row.chat_id /\ toLowerCase(r.title) = toLowerCase(row.title)

\* UNIQUE(chat_id, title): SQLite compares TEXT with the BINARY collation
SameVideoKey(r, row) == r.chat_id = row.chat_id /\ r.title = row.title

upsertVideoKeepFirst(vs, row) ==
    IF \E r \in vs : SameVideoKey(r, row) THEN vs ELSE vs \cup {row}

\* INSERT ... ON CONFLICT(chat_id, title) DO UPDATE SET message_id, chat_title,
\* created_at
upsertVideo(vs, row) == {r \in vs : ~SameVideoKey(r, row)} \cup {row}

upsertMembershipOverwrite(ms, row) ==
    {r \in ms : ~(r.user_id = row.user_id /\ r.chat_id = row.chat_id)} \cup {row}

\* INSERT ... ON CONFLICT(user_id, chat_id) DO UPDATE SET last_seen,
\* chat_title = COALESCE(excluded.chat_title, user_memberships.chat_title)
upsertMembership(ms, row) ==
    LET old == {r \in ms : r.user_id = row.user_id /\ r.chat_id = row.chat_id} IN
    (ms \ old) \cup
    {[user_id |-> row.user_id, chat_id |-> row.chat_id, last_seen |-> row.last_seen,
      chat_title |-> IF row.chat_title # Null \/ old = {} THEN row.chat_title
                     ELSE (CHOOSE r \in old : TRUE).chat_title]}

\* exactVideo.get(chatId, q): the rows LIMIT 1 may pick from (no ORDER BY)
exactVideo(chatId, q) ==
    {r \in videos : r.chat_id = chatId /\ toLowerCase(r.title) = toLowerCase(q)}

\* the orders ORDER BY <col> DESC may give a set of rows (ties in any order)
RECURSIVE OrderedDesc(_, _)
OrderedDesc(rows, col) ==
    IF rows = {} THEN {<<>>}
    ELSE UNION {{<<r>> \o rest : rest \in OrderedDesc(rows \ {r}, col)} :
                  r \in {x \in rows : \A y \in rows : y[col] <= x[col]}}

Take(s, n) == SubSeq(s, 1, IF Len(s) < n THEN Len(s) ELSE n)

FuzzyCap == 5
FuzzyPoolStop == 6

\* likeVideos.all(chatId, q): the possible results
likeVideos(chatId, q) ==
    {Take(s, FuzzyCap) :
        s \in OrderedDesc({r \in videos : r.chat_id = chatId
                              /\ Contains(toLowerCase(r.title), toLowerCase(q))},
                          "created_at")}

findUserChatsAnyUser(userId) == OrderedDesc(memberships, "last_seen")

\* findUserChats.all(userId): the possible results
findUserChats(userId) ==
    OrderedDesc({r \in memberships : r.user_id = userId}, "last_seen")

----------------------------------------------------------------------------
(* Handlers.  better-sqlite3 is synchronous and no handler awaits before   *)
(* its last statement, so each update is handled in one step.              *)

\* bot.on('message', ...): the membership middleware; a storage fault is
\* caught and logged, and next() is called in every case
callsNextUnlessFault(msg, fault) == ~fault

\* return next(), after the try/catch: whether the update goes on to the
\* handlers registered after the middleware
callsNext(msg, fault) == TRUE

Stopped == [type |-> "stopped"]

trackMembership(ms, msg, t, fault) ==
    IF isGroup(msg.chat) /\ ~msg.from.is_bot /\ ~fault
    THEN upsertMembership(ms, [user_id |-> msg.from.id, chat_id |-> msg.chat.id,
                               last_seen |-> t, chat_title |-> titleOrNull(msg.chat)])
    ELSE ms

\* the indexer's title: the caption, else the document's file name without
\* its extension
deriveTitle(msg) ==
    LET title == normalizeTitle(msg.caption) IN
    IF title = <<>> /\ msg.document.present /\ msg.document.file_name # <<>>
    THEN normalizeTitle(stripExtension(msg.document.file_name))
    ELSE title

isVideoType(msg) ==
    msg.video \/ (msg.document.present /\ startsWithVideo(msg.document.mime_type))

\* the edit handler's title and type test
editTitle(msg) == normalizeTitle(msg.caption)

looksLikeVideo(msg) ==
    \/ msg.video
    \/ msg.animation
    \/ msg.video_note
    \/ (msg.document.present /\ startsWithVideo(msg.document.mime_type))

VideoRow(msg, title, t) ==
    [chat_id |-> msg.chat.id, title |-> title, message_id |-> msg.message_id,
     chat_title |-> titleOrNull(msg.chat), created_at |-> t]

\* what upsertVideo.run is called with by the handler of a new message: <<>>
\* when the handler returns before it
indexParams(msg, t) ==
    IF isGroup(msg.chat) /\ isVideoType(msg) /\ deriveTitle(msg) # <<>>
    THEN <<VideoRow(msg, deriveTitle(msg), t)>>
    ELSE <<>>

\* the same for the handler of an edited message
editParams(msg, t) ==
    IF isGroup(msg.chat) /\ looksLikeVideo(msg) /\ editTitle(msg) # <<>>
    THEN <<VideoRow(msg, editTitle(msg), t)>>
    ELSE <<>>

\* upsertVideo.run(params) inside try/catch: a storage fault leaves the table
runUpsert(vs, params, fault) ==
    IF params = <<>> \/ fault THEN vs ELSE upsertVideo(vs, params[1])

\* the rows of the table that conflict with the row of a statement
conflicting(vs, params) ==
    IF params = <<>> THEN {} ELSE {r \in vs : SameVideoKey(r, params[1])}

Message(chat, from, mid, caption, payload) ==
    [chat |-> chat, from |-> from, message_id |-> mid, caption |-> caption,
     video |-> payload.video, animation |-> payload.animation,
     video_note |-> payload.video_note, document |-> payload.document]

\* the clock read by the handler of the next update
Clock == {now, now + 1}

\* a new message with a video or a document: middleware, then
\* bot.on(['video', 'document'])
MediaMessage(msg, t, mfault, ifault) ==
    /\ handled < MaxUpdates
    /\ UNCHANGED finds
    /\ msg.video \/ msg.document.present
    /\ now' = t
    /\ memberships' = trackMembership(memberships, msg, t, mfault)
    /\ videos' = IF callsNext(msg, mfault)
                 THEN runUpsert(videos, indexParams(msg, t), ifault)
                 ELSE videos
    /\ handled' = handled + 1
    /\ last' = IF callsNext(msg, mfault)
               THEN [type |-> "media", params |-> indexParams(msg, t), fault |-> ifault,
                     replaced |-> conflicting(videos, indexParams(msg, t))]
               ELSE Stopped
    /\ UNCHANGED <<limiterVars, uiVars>>

\* an edited message: bot.on('edited_message') (the middleware is on 'message'
\* updates only)
EditedMessage(msg, t, ifault) ==
    /\ handled < MaxUpdates
    /\ UNCHANGED finds
    /\ now' = t
    /\ videos' = runUpsert(videos, editParams(msg, t), ifault)
    /\ handled' = handled + 1
    /\ last' = [type |-> "edit", params |-> editParams(msg, t), fault |-> ifault,
                replaced |-> conflicting(videos, editParams(msg, t))]
    /\ UNCHANGED <<memberships>>
    /\ UNCHANGED <<limiterVars, uiVars>>

\* a new message that no handler after the middleware takes
OtherMessage(msg, t, mfault) ==
    /\ handled < MaxUpdates
    /\ UNCHANGED finds
    /\ now' = t
    /\ memberships' = trackMembership(memberships, msg, t, mfault)
    /\ handled' = handled + 1
    /\ last' = IF callsNext(msg, mfault) THEN [type |-> "other"] ELSE Stopped
    /\ UNCHANGED <<videos>>
    /\ UNCHANGED <<limiterVars, uiVars>>

----------------------------------------------------------------------------
(* /find *)

parseQueryKeepQuotes(arg) == normalizeTitle(trim(arg))

\* the query: the text after the command, trimmed, one pair of double quotes
\* around it removed, normalized
parseQuery(arg) ==
    LET m == trim(arg) IN
    normalizeTitle(IF Len(m) > 1 /\ m[1] = "\"" /\ m[Len(m)] = "\""
                   THEN SubSeq(m, 2, Len(m) - 1)
                   ELSE m)

\* the private branch's loop over exactVideo.get: the possible pools
RECURSIVE ExactPools(_, _, _)
ExactPools(chats, q, acc) ==
    IF chats = <<>> THEN {acc}
    ELSE LET rows == exactVideo(Head(chats).chat_id, toLowerCase(q)) IN
         IF rows = {} THEN ExactPools(Tail(chats), q, acc)
         ELSE UNION {ExactPools(Tail(chats), q, Append(acc, r)) : r \in rows}

\* the private branch's loop over likeVideos.all, left once the pool holds 6
RECURSIVE LikePools(_, _, _, _)
LikePools(chats, q, acc, n) ==
    IF chats = <<>> THEN {[hits |-> acc, lookups |-> n]}
    ELSE UNION {LET pool == acc \o rows IN
                IF Len(pool) >= FuzzyPoolStop
                THEN {[hits |-> pool, lookups |-> n + 1]}
                ELSE LikePools(Tail(chats), q, pool, n + 1) :
                    rows \in likeVideos(Head(chats).chat_id, q)}

NoCall == [op |-> "none"]
Reply(key, text) == [op |-> "reply", key |-> key, text |-> text]
Forward(key, fromChat, mid) ==
    [op |-> "forward", key |-> key, from_chat |-> fromChat, message_id |-> mid]

Disposition(kind, phase, hits, lookups, out) ==
    [kind |-> kind, phase |-> phase, hits |-> hits, lookups |-> lookups, out |-> out]

twoPhaseFirstExact(to, exactHits, like, exactLookups) ==
    IF Len(exactHits) >= 1
    THEN Disposition("resolved", "exact", <<exactHits[1]>>, exactLookups,
                     Forward(to, exactHits[1].chat_id, exactHits[1].message_id))
    ELSE IF Len(like.hits) = 1
    THEN Disposition("resolved", "fuzzy", like.hits, exactLookups + like.lookups,
                     Forward(to, like.hits[1].chat_id, like.hits[1].message_id))
    ELSE IF Len(like.hits) > 1
    THEN Disposition("ambiguous", "fuzzy", like.hits, exactLookups + like.lookups,
                     Reply(to, "ambiguous"))
    ELSE Disposition("notfound", "fuzzy", <<>>, exactLookups + like.lookups,
                     Reply(to, "notfound"))

\* the disposition of a search: `to` is the destination, exactHits the pool of
\* the exact phase, like the pool of the fuzzy phase (run when exactHits is
\* empty)
twoPhase(to, exactHits, like, exactLookups) ==
    IF Len(exactHits) = 1
    THEN Disposition("resolved", "exact", exactHits, exactLookups,
                     Forward(to, exactHits[1].chat_id, exactHits[1].message_id))
    ELSE IF Len(exactHits) > 1
    THEN Disposition("ambiguous", "exact", exactHits, exactLookups,
                     Reply(to, "ambiguous"))
    ELSE IF Len(like.hits) = 1
    THEN Disposition("resolved", "fuzzy", like.hits, exactLookups + like.lookups,
                     Forward(to, like.hits[1].chat_id, like.hits[1].message_id))
    ELSE IF Len(like.hits) > 1
    THEN Disposition("ambiguous", "fuzzy", like.hits, exactLookups + like.lookups,
                     Reply(to, "ambiguous"))
    ELSE Disposition("notfound", "fuzzy", <<>>, exactLookups + like.lookups,
                     Reply(to, "notfound"))

NotRun == [hits |-> <<>>, lookups |-> 0]

\* the group branch: scope is the chat of the command
findInGroup(chatId, q) ==
    {twoPhase(chatId, ex, like, 1) :
        ex \in (IF exactVideo(chatId, toLowerCase(q)) = {} THEN {<<>>}
                ELSE {<<r>> : r \in exactVideo(chatId, toLowerCase(q))}),
        like \in (IF exactVideo(chatId, toLowerCase(q)) = {}
                  THEN {[hits |-> rows, lookups |-> 1] : rows \in likeVideos(chatId, q)}
                  ELSE {NotRun})}

\* the private branch, for one result of findUserChats
findInPrivate(userId, chats, q) ==
    IF chats = <<>>
    THEN {Disposition("noscope", "none", <<>>, 0, Reply(userId, "noscope"))}
    ELSE UNION {{twoPhase(userId, ex, like, Len(chats)) :
                    like \in (IF ex = <<>> THEN LikePools(chats, q, <<>>, 0) ELSE {NotRun})} :
                ex \in ExactPools(chats, q, <<>>)}

ScopeIds(chats) == {chats[i].chat_id : i \in 1..Len(chats)}

\* a /find message: middleware, then bot.command('find').  sfault: a store
\* statement of the handler throws, which its catch logs
FindCommand(msg, arg, t, mfault, sfault) ==
    /\ finds < MaxFinds
    /\ now' = t
    /\ memberships' = trackMembership(memberships, msg, t, mfault)
    /\ finds' = finds + 1
    /\ UNCHANGED handled
    /\ LET q == parseQuery(arg)
           to == msg.chat.id
           ctx == [type |-> "find", chat |-> msg.chat, user |-> msg.from.id, q |-> q]
       IN
       IF ~callsNext(msg, mfault)
       THEN last' = Stopped
       ELSE IF q = <<>>
       THEN last' = ctx @@
                    [scope |-> {}, d |-> Disposition("usage", "none", <<>>, 0, Reply(to, "usage"))]
       ELSE IF sfault
       THEN last' = ctx @@ [scope |-> {}, d |-> Disposition("fault", "none", <<>>, 0, NoCall)]
       ELSE IF isGroup(msg.chat)
       THEN \E d \in findInGroup(msg.chat.id, q) :
                last' = ctx @@ [scope |-> {msg.chat.id}, d |-> d]
       ELSE \E chats \in findUserChats(msg.from.id) :
                \E d \in findInPrivate(msg.from.id, chats, q) :
                    last' = ctx @@ [scope |-> ScopeIds(chats), d |-> d]
    /\ UNCHANGED <<videos>>
    /\ UNCHANGED <<limiterVars, uiVars>>

----------------------------------------------------------------------------
(* The lessons menu and the callback_query handler.  An outbound call made *)
(* through a safe wrapper is a promise the delivery limiter settles: with  *)
(* success, or with the failure tgCall throws.                             *)

PageSize == 8

\* countChatVideos.get(chatId).c
countChatVideos(chatId) == Cardinality({r \in videos : r.chat_id = chatId})

\* SUBSEQ for LIMIT ? OFFSET ?
Page(rows, limit, offset) ==
    SubSeq(rows, offset + 1, Min(Len(rows), offset + limit))

\* listChatVideos.all(chatId, limit, offset): the possible results
listChatVideos(chatId, limit, offset) ==
    {Page(rows, limit, offset) :
        rows \in OrderedDesc({r \in videos : r.chat_id = chatId}, "created_at")}

\* videos v JOIN user_memberships um ON um.chat_id = v.chat_id WHERE um.user_id = ?
userVideos(userId) ==
    {r \in videos : \E um \in memberships : um.chat_id = r.chat_id /\ um.user_id = userId}

\* countUserVideos.get(userId).c
countUserVideos(userId) == Cardinality(userVideos(userId))

\* listUserVideos.all(userId, limit, offset): the possible results
listUserVideos(userId, limit, offset) ==
    {Page(rows, limit, offset) : rows \in OrderedDesc(userVideos(userId), "created_at")}

\* callback data: `L|<chat>|<message>` and `P|<scope>|<id>|<offset>`
LessonData(chatId, mid) == [kind |-> "L", chat_id |-> chatId, message_id |-> mid]
PageData(scope, id, offset) == [kind |-> "P", scope |-> scope, id |-> id, offset |-> offset]
NoData == [kind |-> "none"]

NoMenu == [shown |-> FALSE]

nextShownAtEnd(offset, limit, total) == offset + limit <= total

\* if (offset + limit < total)
nextShown(offset, limit, total) == offset + limit < total

\* the keyboard built from one page
Menu(ctx, scope, id, offset, total, rows) ==
    [shown |-> TRUE, ctx |-> ctx, scope |-> scope, id |-> id,
     offset |-> offset, total |-> total,
     kb |-> [i \in 1..Len(rows) |-> LessonData(rows[i].chat_id, rows[i].message_id)],
     prev |-> IF offset > 0
              THEN <<PageData(scope, id, Max(0, offset - PageSize))>>
              ELSE <<>>,
     next |-> IF nextShown(offset, PageSize, total)
              THEN <<PageData(scope, id, offset + PageSize)>>
              ELSE <<>>]

\* showLessonsMenu(ctx, offset): the menus it may build; NoMenu when the scope
\* holds no record and the reply is the 'no lessons' text
showLessonsMenu(ctx, offset) ==
    IF isGroup(ctx.chat)
    THEN IF countChatVideos(ctx.chat.id) = 0 THEN {NoMenu}
         ELSE {Menu(ctx, "chat", ctx.chat.id, offset, countChatVideos(ctx.chat.id), rows) :
                  rows \in listChatVideos(ctx.chat.id, PageSize, offset)}
    ELSE IF countUserVideos(ctx.from.id) = 0 THEN {NoMenu}
         ELSE {Menu(ctx, "user", ctx.from.id, offset, countUserVideos(ctx.from.id), rows) :
                  rows \in listUserVideos(ctx.from.id, PageSize, offset)}

\* String(ctx.chat?.id || ctx.from?.id)
targetOf(ctx) == ctx.chat.id

Answer(key, text) == [op |-> "answer", key |-> key, text |-> text]
EditMarkup(key) == [op |-> "editMarkup", key |-> key]

Issue(call) == [call |-> call, result |-> "pending"]

\* the settled form of the call a handler awaits (its last one)
Settles(log, ok) ==
    [log EXCEPT ![Len(log)].result = IF ok THEN "ok" ELSE "failed"]

Act(id, ctx, data, pc, log) ==
    [id |-> id, ctx |-> ctx, data |-> data, epoch |-> clears, pc |-> pc, log |-> log]

alreadyHandledNever(id) == FALSE

\* handledCallbacks.has(id)
alreadyHandled(id) == id \in handledCallbacks

\* bot.on('callback_query'), up to its first await: the debounce test and
\* insert, then the first outbound call of the branch
CallbackQuery(id, ctx, data) ==
    /\ Len(acts) < MaxActs
    /\ IF alreadyHandled(id)
       THEN /\ acts' = Append(acts,
                  Act(id, ctx, data, "soft", <<Issue(Answer(targetOf(ctx), "wait"))>>))
            /\ UNCHANGED handledCallbacks
       ELSE /\ handledCallbacks' = handledCallbacks \cup {id}
            /\ acts' = Append(acts,
                  IF data.kind = "L"
                  THEN Act(id, ctx, data, "forward",
                           <<Issue(Forward(IF ctx.chat.type = "private"
                                           THEN ctx.from.id ELSE ctx.chat.id,
                                           data.chat_id, data.message_id))>>)
                  ELSE IF data.kind = "P"
                  THEN Act(id, ctx, data, "page", <<Issue(Answer(targetOf(ctx), "next"))>>)
                  ELSE Act(id, ctx, data, "done", <<>>))
    /\ UNCHANGED <<clears, menu>>
    /\ UNCHANGED <<limiterVars, storeVars>>

\* the handler goes on after the call it awaits has settled
Resume(a, ok) ==
    LET log == Settles(a.log, ok)
        key == targetOf(a.ctx)
        then(pc, call) == [a EXCEPT !.pc = pc, !.log = Append(log, Issue(call))]
        end == [a EXCEPT !.pc = "done", !.log = log]
    IN
    CASE a.pc = "forward" ->
            IF ok THEN then("sent", Answer(key, "sent"))
            ELSE then("alert", Answer(key, "alert"))
      [] a.pc = "alert" ->
            IF ok THEN then("sent", Answer(key, "sent")) ELSE end
      [] a.pc = "sent" -> then("markup", EditMarkup(key))
      [] a.pc = "page" -> then("menu", Reply(key, "menu"))
      [] OTHER -> end

\* the call the i-th run of the handler awaits settles
CallSettles(i, ok) ==
    /\ i \in 1..Len(acts)
    /\ acts[i].pc # "done"
    /\ acts' = [acts EXCEPT ![i] = Resume(acts[i], ok)]
    /\ IF acts[i].pc = "page"
       THEN menu' \in showLessonsMenu(acts[i].ctx, acts[i].data.offset)
       ELSE UNCHANGED menu
    /\ UNCHANGED <<handledCallbacks, clears>>
    /\ UNCHANGED <<limiterVars, storeVars>>

\* setInterval(() => handledCallbacks.clear(), 30000)
ClearHandled ==
    /\ clears < MaxClears
    /\ handledCallbacks' = {}
    /\ clears' = clears + 1
    /\ UNCHANGED <<acts, menu>>
    /\ UNCHANGED <<limiterVars, storeVars>>

\* /darslar or the '📚 Darslar' text: middleware, then showLessonsMenu(ctx)
Darslar(msg, t) ==
    /\ handled < MaxUpdates
    /\ now' = t
    /\ memberships' = trackMembership(memberships, msg, t, FALSE)
    /\ handled' = handled + 1
    /\ last' = [type |-> "other"]
    /\ menu' \in showLessonsMenu([chat |-> msg.chat, from |-> msg.from], 0)
    /\ UNCHANGED <<videos, finds, update>>
    /\ UNCHANGED <<handledCallbacks, clears, acts>>
    /\ UNCHANGED limiterVars

----------------------------------------------------------------------------

InitLimiter ==
    /\ sinceGlobal = minGap
    /\ chatLocks = [k \in Keys |-> 0]
    /\ calls = <<>>
    /\ sinceStart = minGap
    /\ sinceKeyStart = [k \in Keys |-> QueueSleep]

InitStore ==
    /\ now = 1
    /\ videos = {}
    /\ memberships = {}
    /\ handled = 0
    /\ finds = 0
    /\ last = [type |-> "none"]
    /\ update = [type |-> "none"]

InitUi ==
    /\ handledCallbacks = {}
    /\ clears = 0
    /\ acts = <<>>
    /\ menu = [shown |-> FALSE]

\* in a private chat the sender is the chat's user; a bot's messages reach
\* the handlers like a user's
Contexts ==
    {[chat |-> chat, from |-> from] :
        chat \in GroupChats \cup {PrivateChat(u) : u \in Users}, from \in Senders}
UserContexts ==
    {c \in Contexts : ~c.from.is_bot /\ (c.chat.type = "private" => c.from.id = c.chat.id)}
GroupContexts == {c \in Contexts : isGroup(c.chat)}

\* the new messages with a video or a document, by message id
MediaMessages ==
    [mid \in MessageIds |->
        {Message(c.chat, c.from, mid, caption, payload) :
            c \in UserContexts, caption \in Captions,
            payload \in {p \in Payloads : p.video \/ p.document.present}}]

\* the edit handler reads no field of the sender
EditedMessages ==
    {Message(c.chat, c.from, mid, caption, payload) :
        c \in {x \in UserContexts : x.from.id = "u1"}, mid \in MessageIds,
        caption \in Captions, payload \in Payloads \cup {NoMedia}}

TextMessages ==
    {Message(c.chat, c.from, 1, <<>>, NoMedia) : c \in UserContexts \cup GroupContexts}

\* SpecStore: every statement of the store succeeds (no storage fault)
DoMedia ==
    /\ handled < MaxUpdates
    /\ \E msg \in MediaMessages[handled + 1] : \E t \in Clock :
           MediaMessage(msg, t, FALSE, FALSE)
    /\ UNCHANGED update

DoEdit ==
    /\ \E msg \in EditedMessages : \E t \in Clock : EditedMessage(msg, t, FALSE)
    /\ UNCHANGED update

DoOther ==
    /\ \E msg \in TextMessages : \E t \in Clock : OtherMessage(msg, t, FALSE)
    /\ UNCHANGED update

DoFind ==
    /\ \E msg \in {m \in TextMessages : ~m.from.is_bot} : \E arg \in FindArgs :
          \E t \in Clock : FindCommand(msg, arg, t, FALSE, FALSE)
    /\ UNCHANGED update

NextStore ==
    \/ DoMedia
    \/ DoEdit
    \/ DoOther
    \/ DoFind

Init == InitLimiter /\ InitStore /\ InitUi

SpecStore == Init /\ [][NextStore]_vars

----------------------------------------------------------------------------
(* SpecCallback: button activations, duplicated or not, and the interval   *)
(* that clears the set of handled identifiers.                             *)

CallbackIds == 1..MaxCallbackIds

CallbackContexts ==
    {[chat |-> PrivateChat("u1"), from |-> [id |-> "u1", is_bot |-> FALSE]],
     [chat |-> CHOOSE c \in GroupChats : c.id = "g1", from |-> [id |-> "u2", is_bot |-> FALSE]]}

Activate ==
    \E id \in CallbackIds : \E ctx \in CallbackContexts :
        \E data \in {LessonData("g1", 1), NoData} : CallbackQuery(id, ctx, data)

DoCallSettles == \E i \in 1..Len(acts) : \E ok \in BOOLEAN : CallSettles(i, ok)

NextCallback ==
    \/ Activate
    \/ DoCallSettles
    \/ ClearHandled

SpecCallback == Init /\ [][NextCallback]_vars

----------------------------------------------------------------------------
(* SpecMenu: a chat that holds up to MaxRows records, of which u1 is a     *)
(* member; the menu is opened, paged through its buttons, and new videos   *)
(* arrive meanwhile.                                                       *)

Table(n) ==
    {[chat_id |-> "g1", title |-> [j \in 1..i |-> "a"], message_id |-> MaxUpdates + i,
      chat_title |-> "Algebra", created_at |-> i] : i \in 1..n}

InitMenu ==
    /\ InitLimiter /\ InitUi
    /\ now = MaxRows + 1
    /\ videos \in {Table(n) : n \in 0..MaxRows}
    /\ memberships = {[user_id |-> "u1", chat_id |-> "g1", last_seen |-> MaxRows,
                       chat_title |-> "Algebra"]}
    /\ handled = 0
    /\ finds = 0
    /\ last = [type |-> "none"]
    /\ update = [type |-> "none"]

MenuContexts ==
    {c \in UserContexts : c.from.id = "u1" /\ c.chat.id \in {"g1", "u1"}}

OpenMenu ==
    \E c \in MenuContexts : \E t \in Clock :
        Darslar(Message(c.chat, c.from, 1, <<>>, NoMedia), t)

\* a navigation button of the menu is pressed, in the chat of the menu, once
\* the handler of the press before it is through; each press has its own
\* callback query id
PressNav ==
    /\ menu.shown
    /\ Len(acts) < MaxPresses
    /\ \A i \in 1..Len(acts) : acts[i].pc = "done"
    /\ \E data \in {menu.prev[i] : i \in 1..Len(menu.prev)}
                       \cup {menu.next[i] : i \in 1..Len(menu.next)} :
          CallbackQuery(Len(acts) + 1, menu.ctx, data)

Upload ==
    /\ handled < MaxUpdates
    /\ \E msg \in {m \in MediaMessages[handled + 1] :
                      m.chat.id = "g1" /\ m.from.id = "u1" /\ m.video} :
          \E t \in Clock : MediaMessage(msg, t, FALSE, FALSE)
    /\ UNCHANGED update

NextMenu ==
    \/ OpenMenu
    \/ PressNav
    \/ DoCallSettles
    \/ Upload

SpecMenu == InitMenu /\ [][NextMenu]_vars

----------------------------------------------------------------------------
(* SpecMembership: messages of chats whose title changes, or is missing,   *)
(* from one message to the next.                                           *)

RenamedChats ==
    {[id |-> "g1", type |-> "group", title |-> n] : n \in {"Algebra", "Geometry", ""}}
        \cup {[id |-> "g2", type |-> "supergroup", title |-> n] : n \in {"Sets", ""}}

RenamedMessages ==
    {Message(chat, from, 1, <<>>, NoMedia) : chat \in RenamedChats, from \in Senders}

Observe ==
    \E msg \in RenamedMessages : \E t \in Clock :
        /\ OtherMessage(msg, t, FALSE)
        /\ update' = [type |-> "other", msg |-> msg, t |-> t, mfault |-> FALSE]

NextMembership == Observe

SpecMembership == Init /\ [][NextMembership]_vars

----------------------------------------------------------------------------
(* SpecUpdates: after some updates the store answered, one update is       *)
(* delivered and observed, with or without a storage fault in the          *)
(* statements its handlers run.                                            *)

Earlier ==
    /\ update.type = "none"
    /\ DoMedia \/ DoEdit \/ DoOther

DeliverMedia ==
    /\ update.type = "none"
    /\ handled < MaxUpdates
    /\ \E msg \in MediaMessages[handled + 1] : \E t \in Clock :
          \E mfault \in BOOLEAN : \E ifault \in BOOLEAN :
              /\ MediaMessage(msg, t, mfault, ifault)
              /\ update' = [type |-> "media", msg |-> msg, t |-> t,
                            mfault |-> mfault, fault |-> ifault]

DeliverEdit ==
    /\ update.type = "none"
    /\ \E msg \in EditedMessages : \E t \in Clock : \E ifault \in BOOLEAN :
          /\ EditedMessage(msg, t, ifault)
          /\ update' = [type |-> "edit", msg |-> msg, t |-> t, fault |-> ifault]

DeliverOther ==
    /\ update.type = "none"
    /\ \E msg \in TextMessages : \E t \in Clock : \E mfault \in BOOLEAN :
          /\ OtherMessage(msg, t, mfault)
          /\ update' = [type |-> "other", msg |-> msg, t |-> t, mfault |-> mfault]

DeliverFind ==
    /\ update.type = "none"
    /\ \E msg \in {m \in TextMessages : ~m.from.is_bot} : \E arg \in FindArgs :
          \E t \in Clock : \E mfault \in BOOLEAN : \E sfault \in BOOLEAN :
              /\ FindCommand(msg, arg, t, mfault, sfault)
              /\ update' = [type |-> "find", msg |-> msg, arg |-> arg, t |-> t,
                            mfault |-> mfault, fault |-> sfault]

NextUpdates ==
    \/ Earlier
    \/ DeliverMedia
    \/ DeliverEdit
    \/ DeliverOther
    \/ DeliverFind

SpecUpdates == Init /\ [][NextUpdates]_vars


Fresh(i) == chatLocks[KeySeq[i]] = 0 /\ \A j \in 1..(i - 1) : chatLocks[KeySeq[j]] # 0
SubmitUpTo(n) ==
    /\ Len(calls) < n
    /\ UNCHANGED <<storeVars, uiVars>>
    /\ \E i \in 1..Len(KeySeq) :
          /\ chatLocks[KeySeq[i]] # 0 \/ Fresh(i)
          /\ queueForChat(KeySeq[i])
Submit == SubmitUpTo(MaxCalls)
SubmitLive == SubmitUpTo(MaxLiveCalls)
DoChain == UNCHANGED <<storeVars, uiVars>> /\ \E c \in CallIds : Chain(c)
DoWakeQueue == UNCHANGED <<storeVars, uiVars>> /\ \E c \in CallIds : WakeQueue(c)
DoWakeGlobal == UNCHANGED <<storeVars, uiVars>> /\ \E c \in CallIds : WakeGlobal(c)
DoSettle == UNCHANGED <<storeVars, uiVars>> /\ \E c \in CallIds : \E out \in Outcomes : Settle(c, out)
DoWakeRetry == UNCHANGED <<storeVars, uiVars>> /\ \E c \in CallIds : WakeRetry(c)

NextLimiter ==
    \/ Submit
    \/ DoChain
    \/ DoWakeQueue
    \/ DoWakeGlobal
    \/ DoSettle
    \/ DoWakeRetry
    \/ Tick

SpecLimiter == Init /\ [][NextLimiter]_vars

\* with the fairness of the event loop: a due timer fires, a settled promise's
\* reactions run, and (the assumption of C5) every transport call settles
NextLive ==
    \/ SubmitLive
    \/ DoChain
    \/ DoWakeQueue
    \/ DoWakeGlobal
    \/ DoSettle
    \/ DoWakeRetry
    \/ Tick

FairLimiter ==
    /\ Init /\ [][NextLive]_vars
    /\ WF_vars(DoChain) /\ WF_vars(DoWakeQueue) /\ WF_vars(DoWakeGlobal)
    /\ WF_vars(DoWakeRetry) /\ WF_vars(DoSettle) /\ WF_vars(Tick)

----------------------------------------------------------------------------
(* Delivery limiter: claims *)

SameKey(c, d) == calls[c].key = calls[d].key
RateLimited(e) == e.is429 /\ e.hasHint

\* C1: per key, queued calls are strictly serialized in submission order: a
\* call's task has started only if every call submitted earlier for the same
\* key has settled (its retry included), so no two tasks of one key overlap.
C1_Serialized ==
    \A c \in CallIds : \A d \in CallIds :
        (d < c /\ SameKey(c, d) /\ TaskStarted(c)) => Settled(d)

\* a second call of a key runs after the first, retried, call has settled,
\* while an earlier call for another key is still unsettled (no order across keys)
C1_Witness ==
    \E c \in CallIds : \E d \in CallIds : \E e \in CallIds :
        /\ d < c /\ SameKey(c, d) /\ calls[c].pc = "inflight"
        /\ calls[d].attempt = 2 /\ Settled(d)
        /\ e < c /\ ~SameKey(c, e) /\ ~Settled(e)

\* C2: no two invocations of the transport function start less than minGap
\* (40 ms) apart, whatever the interleaving of the calls.
C2_GlobalPace ==
    \A c \in CallIds : calls[c].attempt > 0 => calls[c].gapGlobal >= minGap

\* C3: a first failure with a rate-limit signal carrying retry_after = N is
\* followed, after at least (N+1) seconds, by exactly one more invocation; any
\* other first failure, or a second failure, rejects the call with that error;
\* the transport function is invoked at most twice.
C3_RetryPolicy ==
    \A c \in CallIds :
        /\ calls[c].attempt <= 2
        /\ (calls[c].firstErr # <<>> /\ RateLimited(calls[c].firstErr[1]))
              => /\ calls[c].pc # "rejected" \/ calls[c].attempt = 2
                 /\ calls[c].attempt = 2 =>
                       calls[c].waited >= (calls[c].firstErr[1].retry_after + 1) * MsPerSecond
        /\ (calls[c].firstErr # <<>> /\ ~RateLimited(calls[c].firstErr[1]))
              => /\ calls[c].attempt = 1
                 /\ calls[c].pc = "rejected"
                 /\ calls[c].rejectedWith = <<[err |-> calls[c].firstErr[1], origin |-> c]>>
        /\ (calls[c].pc = "rejected" /\ calls[c].attempt > 0)
              => calls[c].rejectedWith[1].origin = c

\* C4: consecutive invocations of the transport function for one key start at
\* least QueueSleep (1100 ms) apart.
C4_KeySpacing ==
    \A c \in CallIds : calls[c].attempt > 0 => calls[c].gapKey >= QueueSleep

\* a later call of a key, and the retry of a call, have started
C4_Witness ==
    \E c \in CallIds : \E d \in CallIds :
        /\ d < c /\ SameKey(c, d)
        /\ calls[d].attempt = 2
        /\ calls[c].attempt > 0

\* C5: every call submitted is eventually started, whatever failed before it,
\* and a call is never rejected with the error of another call.
C5_ChainSurvives ==
    /\ \A i \in 1..(MaxLiveCalls + 1) :
          [](Len(calls) >= i => <>(Len(calls) >= i /\ TaskStarted(i)))
    /\ [](\A c \in CallIds :
             calls[c].pc = "rejected" =>
                 /\ calls[c].attempt > 0
                 /\ calls[c].rejectedWith[1].origin = c)

\* a call is running although the call before it in its queue was rejected
C5_Witness ==
    \E c \in CallIds :
        /\ calls[c].prev # 0
        /\ calls[calls[c].prev].pc = "rejected"
        /\ calls[c].pc = "inflight"

----------------------------------------------------------------------------
(* Claims about the store and /find, checked under SpecStore *)

\* C7: the table holds at most one record per chat and case-insensitive
\* title: two records of one chat never have titles that differ only in
\* letter case.
C7_OnePerTitleNoCase ==
    \A r1 \in videos : \A r2 \in videos : SameVideoKeyNoCase(r1, r2) => r1 = r2

IndexedMedia == last.type = "media" /\ last.params # <<>> /\ ~last.fault

\* C8: when a qualifying new-media event is indexed, the table holds exactly
\* one record for its (chat, normalized title), which carries the event's
\* message reference and timestamp and is at least as recent as the record it
\* replaced; the records of every other key are left as they were.
C8_LastWriteWins ==
    [][(last'.type = "media" /\ last'.params # <<>> /\ ~last'.fault) =>
          LET row == last'.params[1] IN
          /\ {r \in videos' : SameVideoKey(r, row)} = {row}
          /\ {r \in videos' : ~SameVideoKey(r, row)} = {r \in videos : ~SameVideoKey(r, row)}
          /\ last'.replaced = {r \in videos : SameVideoKey(r, row)}
          /\ \A old \in last'.replaced : old.created_at <= row.created_at]_vars

\* a second event for a key replaced the record of the first one, whose
\* message was another
C8_Witness ==
    /\ IndexedMedia
    /\ \E old \in last.replaced :
          /\ old.message_id # last.params[1].message_id
          /\ old.created_at < last.params[1].created_at

Searched == last.type = "find" /\ last.d.kind \in {"resolved", "ambiguous", "notfound"}

\* the chats of the scope that hold a record whose title equals the query,
\* letter case apart
ExactChats ==
    {c \in last.scope :
        \E r \in videos : r.chat_id = c /\ toLowerCase(r.title) = toLowerCase(last.q)}

\* the records of the scope whose title contains the query, letter case apart
FuzzyRows ==
    {r \in videos : r.chat_id \in last.scope
                    /\ Contains(toLowerCase(r.title), toLowerCase(last.q))}

HitsOf(d) == {d.hits[i] : i \in 1..Len(d.hits)}

\* C9: a search with a non-empty query over a non-empty scope resolves to the
\* one exact hit when exactly one chat of the scope holds the title, is
\* ambiguous with one candidate per such chat when several do, and only when
\* none does takes the fuzzy hits: one resolves, several are ambiguous, none
\* is not found.
C9_TwoPhase ==
    Searched =>
        LET d == last.d
            to == last.chat.id
        IN
        /\ last.q # <<>> /\ last.scope # {}
        /\ Cardinality(ExactChats) = 1 =>
              /\ d.kind = "resolved" /\ d.phase = "exact"
              /\ \E r \in videos :
                    /\ r.chat_id \in ExactChats
                    /\ toLowerCase(r.title) = toLowerCase(last.q)
                    /\ d.out = Forward(to, r.chat_id, r.message_id)
        /\ Cardinality(ExactChats) > 1 =>
              /\ d.kind = "ambiguous" /\ d.phase = "exact"
              /\ d.out = Reply(to, "ambiguous")
              /\ Len(d.hits) = Cardinality(ExactChats)
              /\ {r.chat_id : r \in HitsOf(d)} = ExactChats
              /\ \A r \in HitsOf(d) : r \in videos /\ toLowerCase(r.title) = toLowerCase(last.q)
        /\ ExactChats = {} =>
              /\ d.phase = "fuzzy"
              /\ HitsOf(d) \subseteq FuzzyRows
              /\ Cardinality(FuzzyRows) = 1 =>
                    /\ d.kind = "resolved"
                    /\ \E r \in FuzzyRows : d.out = Forward(to, r.chat_id, r.message_id)
              /\ Cardinality(FuzzyRows) > 1 =>
                    d.kind = "ambiguous" /\ d.out = Reply(to, "ambiguous")
              /\ FuzzyRows = {} => d.kind = "notfound" /\ d.out = Reply(to, "notfound")
        /\ d.phase = "fuzzy" => ExactChats = {}

\* a private search whose title is held by two chats of the scope
C9_Witness ==
    /\ Searched
    /\ last.chat.type = "private"
    /\ Cardinality(ExactChats) = 2
    /\ last.d.kind = "ambiguous"

\* a search whose fuzzy phase found one record
C9_WitnessFuzzy ==
    /\ Searched
    /\ ExactChats = {}
    /\ Cardinality(FuzzyRows) = 1
    /\ last.d.kind = "resolved"

PrivateFind == last.type = "find" /\ last.chat.type = "private" /\ last.q # <<>>

\* the chats the requester has a membership record for
MemberChats == {m.chat_id : m \in {x \in memberships : x.user_id = last.user}}

\* C10: a search in a private conversation consults only the chats the
\* requester has a membership record for, so every candidate and every
\* forwarded message is of such a chat; without any membership record the
\* disposition is 'no scope' and the media table is not read.
C10_PrivateScope ==
    PrivateFind =>
        /\ last.scope = MemberChats
        /\ \A r \in HitsOf(last.d) : r.chat_id \in MemberChats
        /\ last.d.out.op = "forward" => last.d.out.from_chat \in MemberChats
        /\ MemberChats = {} <=> last.d.kind = "noscope"
        /\ last.d.kind = "noscope" =>
              /\ last.d.lookups = 0
              /\ last.d.hits = <<>>
              /\ last.d.out = Reply(last.user, "noscope")

\* a private search resolved in the requester's chat while another chat, of
\* which the requester is no member, holds the same title
C10_Witness ==
    /\ PrivateFind
    /\ last.d.kind = "resolved"
    /\ \E r \in videos :
          /\ r.chat_id \notin MemberChats
          /\ toLowerCase(r.title) = toLowerCase(last.q)

\* a private search by a user without any membership record while the table
\* holds the title
C10_WitnessNoScope ==
    /\ PrivateFind
    /\ MemberChats = {}
    /\ last.d.kind = "noscope"
    /\ \E r \in videos : toLowerCase(r.title) = toLowerCase(last.q)

----------------------------------------------------------------------------
(* Claims about single updates, checked under SpecUpdates *)

\* the event carries native video content, or a document whose declared
\* content type begins with "video/"
CarriesVideo(msg) ==
    msg.video \/ (msg.document.present /\ msg.document.mime_type \in {"video/mp4"})

\* C11: in the new-message path and in the caption-edit path, the upsert of a
\* record runs only for an event that carries native video content or a
\* document whose content type begins with "video/"; an event with any other
\* media (an animation, a video note) leaves the table as it was.
C11_TypeGate ==
    (update.type \in {"media", "edit"} /\ last.params # <<>>) => CarriesVideo(update.msg)

\* C12: the handler of a caption edit runs the upsert that the handler of a
\* new message would run for the same message (same derived title: the
\* normalized caption, else the file name without its last extension), and
\* nothing when that handler would run nothing.
C12_EditAsNew ==
    update.type = "edit" => last.params = indexParams(update.msg, update.t)

\* the middleware's statement ran and succeeded for the update
Tracked ==
    /\ isGroup(update.msg.chat) /\ ~update.msg.from.is_bot /\ ~update.mfault

FaultedFind ==
    /\ update.type = "find" /\ update.fault
    /\ last.type = "find" /\ last.d.kind = "fault"

\* C16: a storage fault while a search is resolved gives the requester a
\* 'technical issue' message in a private conversation, and no message in a
\* group.
C16_FaultVisible ==
    FaultedFind =>
        IF update.msg.chat.type = "private"
        THEN last.d.out = Reply(update.msg.chat.id, "technical")
        ELSE last.d.out = NoCall

\* the text of the command's argument is empty once the spaces around it and
\* one pair of double quotes around it are taken away
EmptyQuery(arg) ==
    LET m == trim(arg)
        inner == IF Len(m) >= 2 /\ m[1] = "\"" /\ m[Len(m)] = "\""
                 THEN SubSeq(m, 2, Len(m) - 1)
                 ELSE m
    IN \A i \in 1..Len(inner) : IsSpace(inner[i])

\* C17: in a group and in a private conversation, a /find whose query is
\* empty is answered with the usage text, and neither table is read.
C17_EmptyQuery ==
    (update.type = "find" /\ EmptyQuery(update.arg)) =>
        /\ last.type = "find"
        /\ last.d.kind = "usage"
        /\ last.d.out = Reply(update.msg.chat.id, "usage")
        /\ last.d.lookups = 0
        /\ last.d.hits = <<>>
        /\ last.scope = {}

\* a quoted blank query, in a private conversation of a member of a chat
\* that holds records
C17_Witness ==
    /\ update.type = "find"
    /\ update.arg = <<" ", "\"", " ", "\"">>
    /\ update.msg.chat.type = "private"
    /\ ~update.fault
    /\ last.d.kind = "usage"
    /\ \E m \in memberships : \E r \in videos :
          m.user_id = update.msg.from.id /\ r.chat_id = m.chat_id

\* C20: a search in a group that finds nothing in the exact and in the fuzzy
\* phase queues no message to the chat.
C20_GroupSilence ==
    (last.type = "find" /\ isGroup(last.chat) /\ last.d.kind = "notfound") =>
        last.d.out = NoCall

----------------------------------------------------------------------------
(* Claim about the membership records, checked under SpecMembership *)

MembershipOf(ms, msg) ==
    {m \in ms : m.user_id = msg.from.id /\ m.chat_id = msg.chat.id}

\* C15: a message of a user in a group leaves one membership record for the
\* pair, whose last-seen is the time of the message and not before the one
\* it had, and whose chat name is the message's when it has one and the
\* record's former name when it has none: a name is never replaced by null.
C15_NamePreserved ==
    [][(update'.type = "other" /\ isGroup(update'.msg.chat) /\ ~update'.msg.from.is_bot) =>
          LET msg == update'.msg
              old == MembershipOf(memberships, msg)
              new == MembershipOf(memberships', msg)
          IN
          /\ Cardinality(new) = 1
          /\ \A n \in new :
                /\ n.last_seen = update'.t
                /\ \A o \in old : o.last_seen <= n.last_seen
                /\ msg.chat.title # "" => n.chat_title = msg.chat.title
                /\ msg.chat.title = "" =>
                      /\ old = {} => n.chat_title = Null
                      /\ \A o \in old : n.chat_title = o.chat_title
                /\ \A o \in old : o.chat_title # Null => n.chat_title # Null
          /\ memberships' \ new = memberships \ old]_vars

\* a message without chat name came after one with a name, and the record
\* keeps the name
C15_Witness ==
    /\ update.type = "other"
    /\ isGroup(update.msg.chat) /\ ~update.msg.from.is_bot
    /\ update.msg.chat.title = ""
    /\ handled = 2
    /\ \E m \in MembershipOf(memberships, update.msg) :
          m.chat_title # Null /\ m.last_seen = update.t

----------------------------------------------------------------------------
(* Claims about button activations, checked under SpecCallback *)

CallsOf(a) == {a.log[k].call : k \in 1..Len(a.log)}

Forwarded(a) == \E c \in CallsOf(a) : c.op = "forward"

\* two runs of the handler for one callback query id, with no clearing of
\* the set between their arrivals
SameActivation(i, j) ==
    /\ i < j
    /\ acts[i].id = acts[j].id
    /\ acts[i].epoch = acts[j].epoch

\* C13: of two activations with the same identifier that arrive without a
\* clearing of the recent-history set between them, only the first can
\* forward; the second is answered with the soft answer and does nothing
\* else, however the handlers interleave.
C13_Debounced ==
    \A i \in 1..Len(acts) : \A j \in 1..Len(acts) :
        SameActivation(i, j) =>
            /\ ~Forwarded(acts[j])
            /\ CallsOf(acts[j]) = {Answer(targetOf(acts[j].ctx), "wait")}
            /\ acts[j].pc \in {"soft", "done"}

\* the first of two activations with one identifier forwarded, the second
\* was answered softly while the first was still in progress
C13_Witness ==
    \E i \in 1..Len(acts) : \E j \in 1..Len(acts) :
        /\ SameActivation(i, j)
        /\ acts[i].data.kind = "L" /\ acts[j].data.kind = "L"
        /\ Forwarded(acts[i])
        /\ acts[i].pc = "forward"
        /\ acts[j].pc = "done"

\* C19: the 'sent' confirmation answers an activation only when its forward
\* succeeded; after a failed forward the activation is answered with the
\* failure alert alone.
C19_SentOnlyAfterForward ==
    \A i \in 1..Len(acts) :
        (acts[i].pc # "soft" /\ Answer(targetOf(acts[i].ctx), "sent") \in CallsOf(acts[i]))
            => acts[i].log[1].result = "ok"

----------------------------------------------------------------------------
(* Claim about the lessons menu, checked under SpecMenu *)

\* the number of records in the scope of the menu now
ScopeTotal ==
    IF menu.scope = "chat"
    THEN Cardinality({r \in videos : r.chat_id = menu.id})
    ELSE Cardinality({r \in videos :
                         \E m \in memberships : m.user_id = menu.id /\ m.chat_id = r.chat_id})

\* C18: a menu shows 'previous' exactly when its offset is above 0 and 'next'
\* exactly when offset + page size is below the total; reached from offset 0
\* through these buttons, its offset is a non-negative multiple of the page
\* size and its page holds at least one record; the total it was built from
\* is never above the number of records of its scope, which only grows.
C18_Pagination ==
    menu.shown =>
        /\ (menu.prev # <<>>) <=> (menu.offset > 0)
        /\ (menu.next # <<>>) <=> (menu.offset + PageSize < menu.total)
        /\ menu.prev # <<>> => menu.prev[1].offset = menu.offset - PageSize
        /\ menu.next # <<>> => menu.next[1].offset = menu.offset + PageSize
        /\ menu.offset >= 0
        /\ menu.offset % PageSize = 0
        /\ Len(menu.kb) >= 1
        /\ Len(menu.kb) = Min(PageSize, menu.total - menu.offset)
        /\ menu.total >= 1
        /\ menu.total <= ScopeTotal

\* the second page, reached through 'next', 'next' and 'previous', after the
\* table grew
C18_Witness ==
    /\ menu.shown
    /\ Len(acts) = 3
    /\ acts[2].data.offset = 2 * PageSize
    /\ acts[3].data.offset = PageSize
    /\ menu.offset = PageSize
    /\ menu.prev # <<>> /\ menu.next # <<>>
    /\ menu.total > MaxRows

====
